---- MODULE Spec2Model ----
(***************************************************************************)
(* Model of amazon_image_streamlit_app.py: a Streamlit script that is run  *)
(* from top to bottom on page load and again after every user interaction. *)
(* One run reads the widgets of the selected feature, and, when the        *)
(* feature's button was pressed, assembles inference_params, calls         *)
(* generator.generate_images, handles the response and displays            *)
(* st.session_state.generated_images.                                      *)
(*                                                                         *)
(* A run that makes no call is one step.  A run that calls generate_images *)
(* is two steps: up to the call (pc = "in_flight") and from the return of  *)
(* the call to the end of the script.  Either way the run ends with        *)
(* pc = "done", the page showing its output; RunEnds then drops the run's  *)
(* locals, and st.session_state is what the next run starts from.          *)
(*                                                                         *)
(* Python values: a str of text is a TLA+ string; raw bytes are a sequence *)
(* of 0..255; a base64 str is a sequence of sextets 0..63 with Pad for     *)
(* '='; None (for a file or a base64 str) is the value None below; floats  *)
(* are counted in tenths.                                                  *)
(***************************************************************************)
EXTENDS Integers, Sequences, FiniteSets, TLC

\* ---------------------------------------------------------------- bounds
\* Longest image list a response of the service carries in the model.
MaxImages == 2
\* Latest reading of datetime.now() in the model (a clock of whole seconds).
MaxClock == 1

\* ------------------------------------------------------ program constants
\* Upper end of the seed range (number_input max_value, randint upper end).
MaxSeed == 858993459
\* Number of display columns: min(3, len(images_list)), cols[i % 3].
DisplayColumns == 3

\* ------------------------------------------------------------ Python bits
None == <<-1>>
Pad == 64

\* bool(x) of a base64 str or None: None and the empty str are falsy.
Truthy(s) == s # None /\ s # <<>>

\* dict with key k set to v (d[k] = v).
SetKey(d, k, v) == [x \in DOMAIN d \cup {k} |-> IF x = k THEN v ELSE d[x]]

\* base64.b64encode(bytes_data).decode("utf-8")
RECURSIVE b64encode(_)
b64encode(b) ==
    IF b = <<>> THEN <<>>
    ELSE LET n  == Len(b)
             b1 == IF n >= 2 THEN b[2] ELSE 0
             b2 == IF n >= 3 THEN b[3] ELSE 0
             v  == b[1] * 65536 + b1 * 256 + b2
         IN  << v \div 262144,
                (v \div 4096) % 64,
                IF n >= 2 THEN (v \div 64) % 64 ELSE Pad,
                IF n >= 3 THEN v % 64 ELSE Pad >>
             \o b64encode(SubSeq(b, 4, n))

\* encode_image_to_base64(image_file)
encode_image_to_base64(image_file) ==
    IF image_file # None THEN b64encode(image_file) ELSE None

\* base64.b64decode(image_base64): the bytes, or None for binascii.Error
\* (a length that is no multiple of four, or padding in the wrong place).
RECURSIVE b64decode(_)
b64decode(s) ==
    IF s = <<>> THEN <<>>
    ELSE IF Len(s) < 4 \/ s[1] = Pad \/ s[2] = Pad THEN None
    ELSE IF s[3] = Pad /\ s[4] # Pad THEN None
    ELSE IF (s[3] = Pad \/ s[4] = Pad) /\ Len(s) > 4 THEN None
    ELSE LET s3 == IF s[3] = Pad THEN 0 ELSE s[3]
             s4 == IF s[4] = Pad THEN 0 ELSE s[4]
             v  == s[1] * 262144 + s[2] * 4096 + s3 * 64 + s4
             head == IF s[3] = Pad THEN << v \div 65536 >>
                     ELSE IF s[4] = Pad THEN << v \div 65536, (v \div 256) % 256 >>
                     ELSE << v \div 65536, (v \div 256) % 256, v % 256 >>
             rest == b64decode(SubSeq(s, 5, Len(s)))
         IN  IF rest = None THEN None ELSE head \o rest

\* Image.open(io.BytesIO(image_bytes)) succeeds: the bytes start as a PNG
\* (\x89 P) or a JPEG (\xff \xd8) file does.
ImageOpens(image_bytes) ==
    /\ Len(image_bytes) >= 2
    /\ \/ image_bytes[1] = 137 /\ image_bytes[2] = 80
       \/ image_bytes[1] = 255 /\ image_bytes[2] = 216

\* Lines 41-42 of display_generated_images run without raising.
Decodes(image_base64) ==
    LET image_bytes == b64decode(image_base64)
    IN  image_bytes # None /\ ImageOpens(image_bytes)

\* ------------------------------------------------------------- the inputs
PngFile == <<137, 80, 78>>
JpegFile == <<255, 216>>
TextFile == <<104, 105>>
\* A second PNG file, one byte longer than PngFile.
LongPngFile == <<137, 80, 78, 71>>

\* What st.file_uploader returns: None or the uploaded file's bytes.
Uploads == {None, PngFile}

\* Encoded images the service may send: two images and a blob that is valid
\* base64 but no image.
ServiceBlobs ==
    { b64encode(PngFile), b64encode(JpegFile), b64encode(TextFile) }


\* randint(0, 858993459): both ends of the range.
Randint == {0, MaxSeed}

\* Values of the Seed number_input (min 0, max 858993459).
SeedInputs == {42}

\* The "Common Settings" widgets of the sidebar (lines 73-80).
CommonSettings ==
    [ quality : {"standard", "premium"}, width : {1024}, height : {768},
      cfg_scale : {70}, num_images : {1},
      use_random_seed : BOOLEAN, seed : SeedInputs ]

Prompts == {"", "a red bicycle"}
NegativePrompts == {"", "clouds, people, text"}

\* The widgets each branch of the script reads (lines 83-455).
SimpleWidgets ==
    [ text_prompt : {"a red bicycle"}, negative_prompt : NegativePrompts ]
ColorWidgets ==
    [ text_prompt : {"a red bicycle"},
      colors : { <<"#81FC81", "#386739", "#C9D688", "#FFFFFF", "#FFFFFF">> },
      reference_image : Uploads \cup {<<>>} ]
ImageGuidedWidgets ==
    [ text_prompt : {"a red bicycle"}, conditioning_image : Uploads,
      control_mode : {"CANNY_EDGE", "SEGMENTATION"}, control_strength : {3} ]
CustomizationWidgets ==
    [ text_prompt : {"a red bicycle"}, negative_prompt : NegativePrompts,
      ref_image1 : {None, PngFile}, ref_image2 : {None, JpegFile},
      ref_image3 : {None, LongPngFile}, similarity_strength : {9} ]
\* Background Replacement shows the radio and the uploader (lines 358-364),
\* and the prompts only for the replacement of an uploaded image (369-387).
BackgroundWidgets ==
    [ operation_type : {"Background Replacement", "Background Removal"},
      source_image : {None} ]
    \cup [ operation_type : {"Background Removal"}, source_image : Uploads \ {None} ]
    \cup [ operation_type : {"Background Replacement"},
           source_image : Uploads \ {None}, text_prompt : Prompts,
           mask_prompt : {"", "person"}, outpainting_mode : {"PRECISE"} ]

\* One run's inputs: the selected feature, the sidebar and the feature's widgets.
OptionsOf(feature, widgets) ==
    [ feature : {feature}, c : CommonSettings, w : widgets ]

\* The widgets as the page first shows them (the defaults of lines 61-96);
\* the Seed input starts at randint(0, 858993459).
DefaultOptions(default_seed) ==
    [ feature |-> "Simple Image Generation",
      c |-> [ quality |-> "standard", width |-> 1024, height |-> 768,
              cfg_scale |-> 70, num_images |-> 1,
              use_random_seed |-> TRUE, seed |-> default_seed ],
      w |-> [ text_prompt |-> "A beautiful landscape with mountains and a lake at sunset",
              negative_prompt |-> "clouds, people, text" ] ]

\* ------------------------------------------------------ payload assembly
\* The choice of the seed with its two arms exchanged.
ResolveSeedSwapped(use_random_seed, seed, draw) ==
    IF use_random_seed THEN seed ELSE draw

\* "seed": randint(0, 858993459) if use_random_seed else seed
ResolveSeed(use_random_seed, seed, draw) ==
    IF use_random_seed THEN draw ELSE seed

\* The imageGenerationConfig block of lines 107-114, 175-182, 240-247, 323-330.
GenerationConfig(c, draw) ==
    [ numberOfImages |-> c.num_images, quality |-> c.quality,
      width |-> c.width, height |-> c.height, cfgScale |-> c.cfg_scale,
      seed |-> ResolveSeed(c.use_random_seed, c.seed, draw) ]

\* The outpainting block written like the other four, with width and height.
OutpaintingConfigWithSize(c, draw) ==
    [ numberOfImages |-> c.num_images, quality |-> c.quality,
      width |-> c.width, height |-> c.height, cfgScale |-> c.cfg_scale,
      seed |-> IF c.use_random_seed THEN draw ELSE c.seed ]

\* The imageGenerationConfig block of lines 403-408 (no width, no height).
OutpaintingConfig(c, draw) ==
    [ numberOfImages |-> c.num_images, quality |-> c.quality,
      cfgScale |-> c.cfg_scale,
      seed |-> ResolveSeed(c.use_random_seed, c.seed, draw) ]

\* inference_params of Simple Image Generation (lines 101-115).
SimplePayload(o, draw) ==
    [ taskType |-> "TEXT_IMAGE",
      textToImageParams |->
          [ text |-> o.w.text_prompt, negativeText |-> o.w.negative_prompt ],
      imageGenerationConfig |-> GenerationConfig(o.c, draw) ]

\* inference_params of Color-Guided Generation (lines 161, 169-187).
ColorGuidedPayload(o, draw) ==
    LET reference_image_base64 ==
            IF o.w.reference_image # None
            THEN encode_image_to_base64(o.w.reference_image) ELSE None
        params == [ text |-> o.w.text_prompt, colors |-> o.w.colors ]
    IN  [ taskType |-> "COLOR_GUIDED_GENERATION",
          colorGuidedGenerationParams |->
              IF Truthy(reference_image_base64)
              THEN SetKey(params, "referenceImage", reference_image_base64)
              ELSE params,
          imageGenerationConfig |-> GenerationConfig(o.c, draw) ]

\* inference_params of Image-Guided Generation (lines 229-248).
ImageGuidedPayload(o, draw) ==
    [ taskType |-> "TEXT_IMAGE",
      textToImageParams |->
          [ text |-> o.w.text_prompt,
            conditionImage |-> encode_image_to_base64(o.w.conditioning_image),
            controlMode |-> o.w.control_mode,
            controlStrength |-> o.w.control_strength ],
      imageGenerationConfig |-> GenerationConfig(o.c, draw) ]

\* Lines 311-313 without `if img is not None`: every slot is encoded.
EncodeEverySlot(files) ==
    [ k \in 1..Len(files) |-> encode_image_to_base64(files[k]) ]

\* images of lines 310-313: the uploaded reference images, in slot order.
RECURSIVE EncodeUploaded(_)
EncodeUploaded(files) ==
    IF files = <<>> THEN <<>>
    ELSE (IF Head(files) # None
          THEN << encode_image_to_base64(Head(files)) >> ELSE <<>>)
         \o EncodeUploaded(Tail(files))

\* inference_params of Instant Customization (lines 310-335).
CustomizationPayload(o, draw) ==
    LET images == EncodeUploaded(<< o.w.ref_image1, o.w.ref_image2, o.w.ref_image3 >>)
        params == [ images |-> images, text |-> o.w.text_prompt,
                    similarityStrength |-> o.w.similarity_strength ]
    IN  [ taskType |-> "IMAGE_VARIATION",
          imageVariationParams |->
              IF o.w.negative_prompt # ""
              THEN SetKey(params, "negativeText", o.w.negative_prompt)
              ELSE params,
          imageGenerationConfig |-> GenerationConfig(o.c, draw) ]

\* inference_params of Background Replacement (lines 392-409).
OutpaintingPayload(o, draw) ==
    [ taskType |-> "OUTPAINTING",
      outPaintingParams |->
          [ image |-> encode_image_to_base64(o.w.source_image),
            text |-> o.w.text_prompt, maskPrompt |-> o.w.mask_prompt,
            outPaintingMode |-> o.w.outpainting_mode ],
      imageGenerationConfig |-> OutpaintingConfig(o.c, draw) ]

\* Background Removal written like the other branches, with a generation config.
BackgroundRemovalPayloadWithConfig(o, draw) ==
    [ taskType |-> "BACKGROUND_REMOVAL",
      backgroundRemovalParams |->
          [ image |-> encode_image_to_base64(o.w.source_image) ],
      imageGenerationConfig |-> GenerationConfig(o.c, draw) ]

\* inference_params of Background Removal (lines 428-436).
BackgroundRemovalPayload(o, draw) ==
    [ taskType |-> "BACKGROUND_REMOVAL",
      backgroundRemovalParams |->
          [ image |-> encode_image_to_base64(o.w.source_image) ] ]

\* The inference_params the selected branch builds.
InferenceParams(o, draw) ==
    CASE o.feature = "Simple Image Generation" -> SimplePayload(o, draw)
      [] o.feature = "Color-Guided Generation" -> ColorGuidedPayload(o, draw)
      [] o.feature = "Image-Guided Generation" -> ImageGuidedPayload(o, draw)
      [] o.feature = "Instant Customization" -> CustomizationPayload(o, draw)
      [] o.feature = "Background Replacement" ->
            IF o.w.operation_type = "Background Replacement"
            THEN OutpaintingPayload(o, draw)
            ELSE BackgroundRemovalPayload(o, draw)

\* The branch shows its button in this run (lines 98, 166, 219-226, 307,
\* 366-389, 425): two branches show it only once an image is uploaded.
ButtonShown(o) ==
    CASE o.feature = "Image-Guided Generation" -> o.w.conditioning_image # None
      [] o.feature = "Background Replacement" -> o.w.source_image # None
      [] OTHER -> TRUE

\* Instant Customization going on whenever slot 1 holds an image, pressed or not.
SubmitsWithoutPress(o, button) ==
    /\ ButtonShown(o)
    /\ IF o.feature = "Instant Customization"
       THEN o.w.ref_image1 # None
       ELSE button

\* The condition under which the branch goes on to assemble and call:
\* st.button(...), and for Instant Customization `st.button(...) and ref_image1`.
Submits(o, button) ==
    /\ ButtonShown(o)
    /\ IF o.feature = "Instant Customization"
       THEN button /\ o.w.ref_image1 # None
       ELSE button

\* The run reaches the "Display generated images" lines of its branch
\* (131, 203, 263-265, 351, 451-453).
DisplayReached(o) == ButtonShown(o)

\* st.info of lines 267 and 455.
InfoShown(o) == ~ButtonShown(o)

\* ------------------------------------------------------------ the display
\* The number taken as the loop index itself.
DownloadNumberFromZero(i) == i

\* label=f"Download Image {i+1}" and file_name=f"generated_image_{i+1}.png"
DownloadNumber(i) == i + 1

\* display_generated_images(images_list), from index i on: what is put on
\* the page before the loop ends or line 41 or 42 raises.
RECURSIVE DisplayFrom(_, _)
DisplayFrom(images_list, i) ==
    IF i >= Len(images_list) \/ ~Decodes(images_list[i + 1]) THEN <<>>
    ELSE << [ index |-> i, column |-> i % DisplayColumns,
              image |-> images_list[i + 1],
              label |-> << "Download Image", DownloadNumber(i) >>,
              file_name |-> << "generated_image", DownloadNumber(i), "png" >> ] >>
         \o DisplayFrom(images_list, i + 1)

display_generated_images(images_list) == DisplayFrom(images_list, 0)

\* display_generated_images raises (b64decode or Image.open fails on an entry).
DisplayRaises(images_list) ==
    \E k \in 1..Len(images_list) : ~Decodes(images_list[k])

\* "Display generated images" at the end of a branch:
\* if st.session_state.generated_images: display_generated_images(...)
DisplayAtEnd(o, images) ==
    IF DisplayReached(o) /\ images # <<>>
    THEN display_generated_images(images) ELSE <<>>

DisplayAtEndRaises(o, images) ==
    DisplayReached(o) /\ images # <<>> /\ DisplayRaises(images)

\* ------------------------------------------------------- session and sink
\* output/<generation_id>, generation_id the time of the run (lines 20-21).
OutputDirectory(t) == << "output", t >>

\* Lines 20-21 without the guard of line 19: set anew by every run.
InitOutputDirectoryEveryRun(keys, directory, t) == OutputDirectory(t)

\* Lines 19-21: set only when the key is not in st.session_state.
InitOutputDirectory(keys, directory, t) ==
    IF "output_directory" \notin keys THEN OutputDirectory(t) ELSE directory

\* Lines 23-24.
InitGeneratedImages(keys, images) ==
    IF "generated_images" \notin keys THEN <<>> ELSE images

\* What generate_images may return: a response with images, or one without.
Responses ==
    { [ images |-> l ] :
        l \in UNION { [1..n -> ServiceBlobs] : n \in 1..MaxImages } }
    \cup { [ error |-> "generation failed" ] }

\* The list assigned from the response whether or not it has images.
ImagesAfterAlways(resp, images) ==
    IF "images" \in DOMAIN resp THEN resp.images ELSE <<>>

\* Lines 123-124: the list is replaced when the response has images.
ImagesAfter(resp, images) ==
    IF "images" \in DOMAIN resp THEN resp.images ELSE images

\* Line 125: file_utils.save_base64_images(response["images"], directory, "image").
SaveCalls(resp, directory) ==
    IF "images" \in DOMAIN resp
    THEN << [ images |-> resp.images, output_directory |-> directory,
              base_name |-> "image" ] >>
    ELSE <<>>

\* file_utils.save_base64_images decodes every entry; one that does not
\* decode fails the call.
SaveRaises(resp) ==
    "images" \in DOMAIN resp /\ \E k \in 1..Len(resp.images) : ~Decodes(resp.images[k])

\* st.success / st.error of lines 126-128.
ResultMessages(resp) ==
    IF "images" \in DOMAIN resp
    THEN (IF SaveRaises(resp) THEN {} ELSE {"success"})
    ELSE {"error"}

\* st.info of lines 267, 286 and 455.
InfoMessages(o) ==
    IF InfoShown(o) \/ o.feature = "Instant Customization" THEN {"info"} ELSE {}

NoPayload == [ none |-> TRUE ]
NoResponse == [ none |-> TRUE ]
NoGenerator == [ none |-> TRUE ]

\* ------------------------------------------------------------- the state
VARIABLES
    session_keys,      \* the keys in st.session_state
    output_directory,  \* st.session_state.output_directory
    generated_images,  \* st.session_state.generated_images
    now,               \* datetime.now(), in seconds
    session_start,     \* datetime.now() read by the session's first run, or -1
    pc,                \* "idle": no run; "in_flight": a run waits in
                       \* generate_images; "done": a run has just ended
    opts,              \* the widgets the latest run read
    pressed,           \* the latest run's st.button returned True
    payload,           \* the latest run's inference_params
    generator,         \* the latest run's BedrockImageGenerator
    calls,             \* generate_images calls the latest run made
    in_flight,         \* generate_images calls that have not returned
    response,          \* what the latest run's call returned
    save_calls,        \* the latest run's calls of save_base64_images
    messages,          \* st.success / st.error / st.info of the latest run
    displayed,         \* what the latest run's display_generated_images showed
    exception          \* the latest run ended in an uncaught exception

vars == << session_keys, output_directory, generated_images, now, session_start,
           pc, opts, pressed, payload, generator, calls, in_flight, response,
           save_calls, messages, displayed, exception >>

Init ==
    /\ session_keys = {}
    /\ output_directory = OutputDirectory(0)
    /\ generated_images = <<>>
    /\ now = 0
    /\ session_start = -1
    /\ pc = "idle"
    /\ opts = DefaultOptions(0)
    /\ pressed = FALSE
    /\ payload = NoPayload
    /\ generator = NoGenerator
    /\ calls = 0
    /\ in_flight = 0
    /\ response = NoResponse
    /\ save_calls = <<>>
    /\ messages = {}
    /\ displayed = <<>>
    /\ exception = FALSE

\* One run of the script with widgets o and the button state `button`, up to
\* the end of the script or up to the call of generate_images.
ScriptRun(o, button, draw) ==
    /\ pc = "idle"
    /\ button => ButtonShown(o)
    /\ session_keys' = session_keys \cup {"output_directory", "generated_images"}
    /\ output_directory' = InitOutputDirectory(session_keys, output_directory, now)
    /\ generated_images' = InitGeneratedImages(session_keys, generated_images)
    /\ session_start' = IF session_keys = {} THEN now ELSE session_start
    /\ opts' = o
    /\ pressed' = button
    /\ response' = NoResponse
    /\ save_calls' = <<>>
    /\ IF Submits(o, button)
       THEN /\ payload' = InferenceParams(o, draw)
            /\ generator' = [ output_directory |-> output_directory' ]
            /\ calls' = 1
            /\ in_flight' = in_flight + 1
            /\ pc' = "in_flight"
            /\ messages' = InfoMessages(o)
            /\ displayed' = <<>>
            /\ exception' = FALSE
       ELSE /\ payload' = NoPayload
            /\ generator' = NoGenerator
            /\ calls' = 0
            /\ in_flight' = in_flight
            /\ pc' = "done"
            /\ messages' = InfoMessages(o)
            /\ displayed' = DisplayAtEnd(o, generated_images')
            /\ exception' = DisplayAtEndRaises(o, generated_images')
    /\ UNCHANGED now

\* The first run of a session: the page loads with the default widgets.
PageLoad ==
    /\ session_keys = {}
    /\ \E s \in Randint : ScriptRun(DefaultOptions(s), FALSE, s)

\* A later run, after the user changed widgets or pressed the button, with
\* feature == "Simple Image Generation" (lines 83-132).
SimpleImageGeneration ==
    /\ session_keys # {}
    /\ \E o \in OptionsOf("Simple Image Generation", SimpleWidgets),
          button \in BOOLEAN, draw \in Randint : ScriptRun(o, button, draw)

\* A later run with feature == "Color-Guided Generation" (lines 134-204).
ColorGuidedGeneration ==
    /\ session_keys # {}
    /\ \E o \in OptionsOf("Color-Guided Generation", ColorWidgets),
          button \in BOOLEAN, draw \in Randint : ScriptRun(o, button, draw)

\* A later run with feature == "Image-Guided Generation" (lines 206-267).
ImageGuidedGeneration ==
    /\ session_keys # {}
    /\ \E o \in OptionsOf("Image-Guided Generation", ImageGuidedWidgets),
          button \in BOOLEAN, draw \in Randint : ScriptRun(o, button, draw)

\* A later run with feature == "Instant Customization" (lines 269-352).
InstantCustomization ==
    /\ session_keys # {}
    /\ \E o \in OptionsOf("Instant Customization", CustomizationWidgets),
          button \in BOOLEAN, draw \in Randint : ScriptRun(o, button, draw)

\* A later run with feature == "Background Replacement" (lines 354-455).
BackgroundReplacement ==
    /\ session_keys # {}
    /\ \E o \in OptionsOf("Background Replacement", BackgroundWidgets),
          button \in BOOLEAN, draw \in Randint : ScriptRun(o, button, draw)

\* generate_images returns resp; the run handles it (lines 123-128) and goes
\* on to the end of the script.
GenerateImagesReturns ==
    /\ pc = "in_flight"
    /\ \E resp \in Responses :
        /\ response' = resp
        /\ in_flight' = in_flight - 1
        /\ generated_images' = ImagesAfter(resp, generated_images)
        /\ save_calls' = SaveCalls(resp, output_directory)
        /\ IF SaveRaises(resp)
           THEN /\ messages' = messages
                /\ displayed' = <<>>
                /\ exception' = TRUE
           ELSE /\ messages' = messages \cup ResultMessages(resp)
                /\ displayed' = DisplayAtEnd(opts, generated_images')
                /\ exception' = DisplayAtEndRaises(opts, generated_images')
    /\ pc' = "done"
    /\ UNCHANGED << session_keys, output_directory, now, session_start, opts,
                    pressed, payload, generator, calls >>

\* The script has ended: its locals are gone, st.session_state stays.
RunEnds ==
    /\ pc = "done"
    /\ pc' = "idle"
    /\ opts' = DefaultOptions(0)
    /\ pressed' = FALSE
    /\ payload' = NoPayload
    /\ generator' = NoGenerator
    /\ calls' = 0
    /\ response' = NoResponse
    /\ save_calls' = <<>>
    /\ messages' = {}
    /\ displayed' = <<>>
    /\ exception' = FALSE
    /\ UNCHANGED << session_keys, output_directory, generated_images, now,
                    session_start, in_flight >>

\* Time passes.
Tick ==
    /\ now < MaxClock
    /\ now' = now + 1
    /\ UNCHANGED << session_keys, output_directory, generated_images,
                    session_start, pc, opts, pressed, payload, generator, calls,
                    in_flight, response, save_calls, messages, displayed,
                    exception >>

Next ==
    \/ PageLoad
    \/ SimpleImageGeneration
    \/ ColorGuidedGeneration
    \/ ImageGuidedGeneration
    \/ InstantCustomization
    \/ BackgroundReplacement
    \/ GenerateImagesReturns
    \/ RunEnds
    \/ Tick

Spec == Init /\ [][Next]_vars

\* --------------------------------------------------------- the properties
\* The run has called generate_images with `payload`.
Called == calls > 0

ParamsBlocks ==
    { "textToImageParams", "colorGuidedGenerationParams", "imageVariationParams",
      "outPaintingParams", "backgroundRemovalParams" }

\* The params block that belongs to a task type.
BlockOf(taskType) ==
    CASE taskType = "TEXT_IMAGE" -> "textToImageParams"
      [] taskType = "COLOR_GUIDED_GENERATION" -> "colorGuidedGenerationParams"
      [] taskType = "IMAGE_VARIATION" -> "imageVariationParams"
      [] taskType = "OUTPAINTING" -> "outPaintingParams"
      [] taskType = "BACKGROUND_REMOVAL" -> "backgroundRemovalParams"

HasConfig == "imageGenerationConfig" \in DOMAIN payload

\* C1: every payload passed to generate_images holds exactly one task params
\* block, the one that belongs to its taskType, and holds an
\* imageGenerationConfig exactly when the task is not BACKGROUND_REMOVAL.
C1_PayloadShape ==
    Called =>
        /\ Cardinality(DOMAIN payload \cap ParamsBlocks) = 1
        /\ BlockOf(payload.taskType) \in DOMAIN payload
        /\ HasConfig <=> payload.taskType # "BACKGROUND_REMOVAL"

C1_Witness ==
    /\ pc = "in_flight"
    /\ payload.taskType = "BACKGROUND_REMOVAL"
    /\ DOMAIN payload = {"taskType", "backgroundRemovalParams"}

\* A field the selected mode requires is missing from the options.
MissingRequired(o) ==
    CASE o.feature = "Image-Guided Generation" -> o.w.conditioning_image = None
      [] o.feature = "Instant Customization" ->
            /\ o.w.ref_image1 = None
            /\ o.w.ref_image2 = None
            /\ o.w.ref_image3 = None
      [] o.feature = "Background Replacement" ->
            \/ o.w.source_image = None
            \/ /\ o.w.operation_type = "Background Replacement"
               /\ (o.w.text_prompt = "" \/ o.w.mask_prompt = "")
      [] OTHER -> FALSE

\* C2: a press with a required field missing makes no generate_images call
\* (the part of the claim that a malformed payload is never submitted).
C2_ValidationBeforeCall ==
    (pressed /\ MissingRequired(opts)) => ~Called

\* C3: in a submitted payload an optional field (negativeText, referenceImage,
\* controlMode, controlStrength) is present only with a non-empty value.
C3_OptionalOnlyWhenSupplied ==
    Called =>
        LET block == payload[BlockOf(payload.taskType)]
        IN  /\ "negativeText" \in DOMAIN block => block.negativeText # ""
            /\ "referenceImage" \in DOMAIN block => Truthy(block.referenceImage)
            /\ "controlMode" \in DOMAIN block => block.controlMode # ""

\* C4: the seed of every submitted imageGenerationConfig is an integer in
\* 0..858993459; with 'Use Random Seed' off it is the seed the user entered,
\* with it on it is a value drawn by randint.
C4_SeedConcrete ==
    (Called /\ HasConfig) =>
        LET seed == payload.imageGenerationConfig.seed
        IN  /\ seed \in 0..MaxSeed
            /\ ~opts.c.use_random_seed => seed = opts.c.seed
            /\ opts.c.use_random_seed => seed \in Randint

C4_Witness ==
    /\ pc = "in_flight"
    /\ HasConfig
    /\ ~opts.c.use_random_seed
    /\ payload.imageGenerationConfig.seed = 42

\* C5: a run makes at most one generate_images call, and none without a
\* button press; at most one call is outstanding, and none once the run is
\* over (a failed response is not retried).
C5_OneCallPerPress ==
    /\ calls <= (IF pressed THEN 1 ELSE 0)
    /\ in_flight <= 1
    /\ in_flight = 1 <=> pc = "in_flight"

C5_Witness ==
    /\ pc = "done"
    /\ pressed
    /\ calls = 1
    /\ "images" \notin DOMAIN response
    /\ in_flight = 0

\* C6: a response without images leaves generated_images as it was, calls
\* no save and reports an error; the list changes and save is called only in
\* the handling of a response that has images.
C6_FailureBranch ==
    [][ /\ (pc = "in_flight" /\ pc' = "done" /\ "images" \notin DOMAIN response') =>
            /\ generated_images' = generated_images
            /\ save_calls' = <<>>
            /\ "error" \in messages'
            /\ "success" \notin messages'
        /\ (generated_images' # generated_images
               \/ (save_calls' # save_calls /\ save_calls' # <<>>)) =>
            (pc = "in_flight" /\ pc' = "done" /\ "images" \in DOMAIN response') ]_vars

C6_Witness ==
    /\ pc = "done"
    /\ calls = 1
    /\ "images" \notin DOMAIN response
    /\ generated_images # <<>>
    /\ save_calls = <<>>
    /\ "error" \in messages

ConfigKeys == {"numberOfImages", "quality", "width", "height", "cfgScale", "seed"}

\* C7 as stated: every submitted imageGenerationConfig holds all six fields.
C7_FullConfig ==
    (Called /\ HasConfig) => DOMAIN payload.imageGenerationConfig = ConfigKeys

\* C7 as amended: every submitted imageGenerationConfig holds numberOfImages,
\* quality, cfgScale and seed; it holds width and height as well in every
\* task but OUTPAINTING, whose config holds neither.
C7_ConfigFields ==
    (Called /\ HasConfig) =>
        LET keys == DOMAIN payload.imageGenerationConfig
        IN  IF payload.taskType = "OUTPAINTING"
            THEN keys = ConfigKeys \ {"width", "height"}
            ELSE keys = ConfigKeys

C7_Witness ==
    /\ pc = "in_flight"
    /\ payload.taskType = "OUTPAINTING"
    /\ "seed" \in DOMAIN payload.imageGenerationConfig

\* C8: once set by the first run, the output directory is output/<time of
\* that run>, and every generator and every save call gets that directory.
C8_SessionDirectory ==
    session_keys # {} =>
        /\ output_directory = OutputDirectory(session_start)
        /\ "output_directory" \in DOMAIN generator =>
               generator.output_directory = OutputDirectory(session_start)
        /\ \A k \in 1..Len(save_calls) :
               save_calls[k].output_directory = OutputDirectory(session_start)

C8_Witness ==
    /\ pc = "done"
    /\ now > session_start
    /\ Len(save_calls) = 1
    /\ save_calls[1].output_directory = OutputDirectory(session_start)
    /\ "error" \notin messages

AllDecode(images) == \A k \in 1..Len(images) : Decodes(images[k])

\* C9: what is displayed is, entry by entry, the stored list, the entry at
\* index k numbered k+1; a response's images are handed to save and stored in
\* the order received, and when they all decode they are all displayed.
C9_OrderPreserved ==
    /\ \A k \in 1..Len(displayed) :
           /\ k <= Len(generated_images)
           /\ displayed[k].image = generated_images[k]
           /\ displayed[k].index = k - 1
           /\ displayed[k].label = << "Download Image", k >>
           /\ displayed[k].file_name = << "generated_image", k, "png" >>
    /\ (pc = "done" /\ "images" \in DOMAIN response) =>
           /\ Len(save_calls) = 1
           /\ save_calls[1].images = response.images
           /\ generated_images = response.images
           /\ AllDecode(response.images) =>
                  (~exception /\ Len(displayed) = Len(response.images))

C9_Witness ==
    /\ pc = "done"
    /\ "images" \in DOMAIN response
    /\ response.images = << b64encode(JpegFile), b64encode(PngFile) >>
    /\ Len(displayed) = 2
    /\ displayed[1].image = b64encode(JpegFile)
    /\ displayed[2].label = << "Download Image", 2 >>

\* C10: after a response with an image that does not decode, the response's
\* list is not the session's list and nothing of it is displayed.
C10_DecodeFailureFailsBatch ==
    (pc = "done" /\ "images" \in DOMAIN response /\ ~AllDecode(response.images)) =>
        /\ generated_images # response.images
        /\ displayed = <<>>

\* The upload slots of Instant Customization, in slot order.
ReferenceSlots(o) == << o.w.ref_image1, o.w.ref_image2, o.w.ref_image3 >>

\* Slot k holds an image.
SlotFilled(o, k) == ReferenceSlots(o)[k] # None

\* The number of filled slots among the first k.
FilledUpTo(o, k) == Cardinality({ j \in 1..k : SlotFilled(o, j) })

\* C11: an IMAGE_VARIATION payload is submitted only with an image in slot 1;
\* its images are between one and three, none of them None, and they are the
\* filled slots' files, encoded, in slot order with the empty slots skipped.
C11_ReferenceImages ==
    (Called /\ payload.taskType = "IMAGE_VARIATION") =>
        LET images == payload.imageVariationParams.images
        IN  /\ SlotFilled(opts, 1)
            /\ Len(images) \in 1..3
            /\ Len(images) = FilledUpTo(opts, 3)
            /\ \A k \in 1..Len(images) : images[k] # None
            /\ \A k \in 1..3 :
                   SlotFilled(opts, k) =>
                       images[FilledUpTo(opts, k)] = b64encode(ReferenceSlots(opts)[k])

C11_Witness ==
    /\ pc = "in_flight"
    /\ payload.taskType = "IMAGE_VARIATION"
    /\ opts.w.ref_image2 = None
    /\ payload.imageVariationParams.images
           = << b64encode(PngFile), b64encode(LongPngFile) >>
====
